---- MODULE Spec2Model ----
(***************************************************************************)
(* Model of the recipe interpreter of epi-parser.py:                       *)
(*   parse_lay_file            (definitions file -> lay_data)              *)
(*   parse_epi_file_with_loops (program file -> layer_stack)               *)
(*   parse_layer_line          (one layer(...) line -> layer record)       *)
(*   flatten_layers            (layer_stack -> flat list)                  *)
(*                                                                         *)
(* Conventions.                                                            *)
(*  - Python None is <<>>, a present value x is <<x>>.                     *)
(*  - A numeric text ("600", "1.2.3") is a sequence of one-character       *)
(*    strings, so that the regular expressions and float()/int() of the    *)
(*    source are computed on the characters.                               *)
(*  - A float is an integer number of hundredths (12000 is 120.0); every   *)
(*    numeric text of the model has at most two fractional digits.         *)
(*  - A Python str is <<"str", s>> and a Python list <<"list", x1, ...>>   *)
(*    where both occur under the same key ("Shutters").                    *)
(*  - A raised exception ends the run: pc = "crashed", error = its name.   *)
(***************************************************************************)
EXTENDS Integers, Sequences, FiniteSets, TLC

VARIABLES
    pc,             \* position of the script
    error,          \* name of the uncaught exception, "" when none
    lay_lines,      \* lines of the definitions file read so far
    layers,         \* parse_lay_file: identifier -> [shutters, rate]
    current_layer,  \* parse_lay_file: None or the open identifier
    lay_data,       \* the mapping parse_lay_file returned
    lines,          \* lines of the program file read so far (i = Len(lines))
    layer_stack,    \* parse_epi_file_with_loops: the stack being built
    block,          \* body lines captured of the open for-block
    iterations,     \* iteration count of the open for-block
    flat,           \* flatten_layers(layer_stack)
    conv            \* unit-conversion round trip: [rate, time, thickness, back]

vars == <<pc, error, lay_lines, layers, current_layer, lay_data, lines,
          layer_stack, block, iterations, flat, conv>>

(***************************************************************************)
(* Bounds                                                                  *)
(***************************************************************************)
MaxLayLines == 4
MaxLines == 4
MaxRepeat == 2
MaxTime == 30

(***************************************************************************)
(* Python values                                                           *)
(***************************************************************************)
None == <<>>
Some(x) == <<x>>
PyStr(s) == <<"str", s>>
PyList(s) == <<"list">> \o s

Last(s) == s[Len(s)]
Front(s) == SubSeq(s, 1, Len(s) - 1)

Digits == {"0", "1", "2", "3", "4", "5", "6", "7", "8", "9"}

DigitVal(c) ==
    CASE c = "0" -> 0 [] c = "1" -> 1 [] c = "2" -> 2 [] c = "3" -> 3
      [] c = "4" -> 4 [] c = "5" -> 5 [] c = "6" -> 6 [] c = "7" -> 7
      [] c = "8" -> 8 [] c = "9" -> 9

DigitChar(n) ==
    CASE n = 0 -> "0" [] n = 1 -> "1" [] n = 2 -> "2" [] n = 3 -> "3"
      [] n = 4 -> "4" [] n = 5 -> "5" [] n = 6 -> "6" [] n = 7 -> "7"
      [] n = 8 -> "8" [] n = 9 -> "9"

\* the regular expression [\d.]+ matches the whole text
IsNumChars(text) ==
    /\ text # <<>>
    /\ \A i \in 1..Len(text) : text[i] \in Digits \cup {"."}

\* the regular expression \d+ matches the whole text
IsDigitChars(text) ==
    /\ text # <<>>
    /\ \A i \in 1..Len(text) : text[i] \in Digits

RECURSIVE DigitsValue(_)
DigitsValue(text) ==
    IF text = <<>> THEN 0
    ELSE 10 * DigitsValue(Front(text)) + DigitVal(Last(text))

\* int(text) of a text matched by \d+
PyInt(text) == DigitsValue(text)

DotPositions(text) == {i \in 1..Len(text) : text[i] = "."}

\* float(text) succeeds: at most one point and at least one digit
FloatParses(text) ==
    /\ IsNumChars(text)
    /\ Cardinality(DotPositions(text)) <= 1
    /\ \E i \in 1..Len(text) : text[i] \in Digits

\* float(text) in hundredths, for a text float() accepts
PyFloat(text) ==
    LET dots == DotPositions(text)
        d    == IF dots = {} THEN Len(text) + 1 ELSE CHOOSE i \in dots : TRUE
        ip   == SubSeq(text, 1, d - 1)
        fp   == SubSeq(text, d + 1, Len(text))
        f2   == IF Len(fp) = 0 THEN 0
                ELSE IF Len(fp) = 1 THEN 10 * DigitVal(fp[1])
                ELSE 10 * DigitVal(fp[1]) + DigitVal(fp[2])
    IN  100 * DigitsValue(ip) + f2

\* the quotient cut off instead of rounded
RoundDown(num, den, up) == num \div den

\* round(x, 2) of the float x computed for num / den hundredths: the nearest
\* integer.  When num / den lies exactly between two integers the float x lies
\* on one side of the middle or the other, which the hundredths do not tell:
\* up is the side.
PyRound(num, den, up) ==
    LET q == num \div den
        r == num % den
    IN  IF 2 * r < den THEN q
        ELSE IF 2 * r > den THEN q + 1
        ELSE IF up THEN q + 1 ELSE q

\* truth value of current_layer: None and "" are false
Truthy(cl) == cl # None /\ cl[1] # ""

(***************************************************************************)
(* parse_lay_file                                                          *)
(***************************************************************************)
\* a line of the definitions file: keyword and the text in its parentheses
LayLine(kw, arg) == [kw |-> kw, arg |-> arg]

LayIds == {"GaAs", "AlAs", ""}

RateTexts ==
    { <<"6", "0", "0">>, <<"0">>, <<"a", "b", "c">>,
      <<"1", ".", "2", ".", "3">>, <<"1", "e", "3">>, <<>> }

LayAlphabet ==
    {LayLine("definelayer", <<id>>) : id \in LayIds}
      \cup {LayLine("rate", t) : t \in RateTexts}
      \cup {LayLine("open", <<"As", "Ga">>), LayLine("enddefine", <<>>),
            LayLine("other", <<>>)}

LayState(ls, cl, err) == [layers |-> ls, current_layer |-> cl, error |-> err]

\* layers[id] = value
SetEntry(ls, id, value) ==
    [k \in DOMAIN ls \cup {id} |-> IF k = id THEN value ELSE ls[k]]

\* line.startswith("definelayer(")
DefineLayerLine(st, line) ==
    LET id == line.arg[1]
    IN  LayState(SetEntry(st.layers, id, [shutters |-> <<>>, rate |-> None]),
                 Some(id), "")

\* line.startswith("rate(") and current_layer
RateLine(st, line) ==
    LET id == st.current_layer[1]
    IN  IF ~IsNumChars(line.arg)
        THEN LayState(st.layers, st.current_layer, "AttributeError")
        ELSE IF ~FloatParses(line.arg)
        THEN LayState(st.layers, st.current_layer, "ValueError")
        ELSE LayState(SetEntry(st.layers, id,
                        [st.layers[id] EXCEPT !.rate = Some(PyFloat(line.arg))]),
                      st.current_layer, "")

\* line.startswith("open(") and current_layer
OpenLine(st, line) ==
    LET id == st.current_layer[1]
    IN  LayState(SetEntry(st.layers, id,
                    [st.layers[id] EXCEPT !.shutters = line.arg]),
                 st.current_layer, "")

\* the block is closed without current_layer being reset
EndDefineLineKeep(st, line) == LayState(st.layers, st.current_layer, "")

\* line.startswith("enddefine")
EndDefineLine(st, line) == LayState(st.layers, None, "")

\* one iteration of the loop over the lines of the definitions file
LayStep(st, line) ==
    IF line.kw = "definelayer" THEN DefineLayerLine(st, line)
    ELSE IF line.kw = "rate" /\ Truthy(st.current_layer) THEN RateLine(st, line)
    ELSE IF line.kw = "open" /\ Truthy(st.current_layer) THEN OpenLine(st, line)
    ELSE IF line.kw = "enddefine" THEN EndDefineLine(st, line)
    ELSE st

EmptyLayers == [k \in {} |-> None]

RECURSIVE LayFold(_, _)
LayFold(st, file) ==
    IF file = <<>> \/ st.error # "" THEN st
    ELSE LayFold(LayStep(st, Head(file)), Tail(file))

\* the whole function on a file; .error # "" when it raised
parse_lay_file(file) == LayFold(LayState(EmptyLayers, None, ""), file)

(***************************************************************************)
(* Definitions-file scan, line by line                                     *)
(***************************************************************************)
NoConv == [rate |-> 0, time |-> 0, thickness |-> 0, back |-> 0]

EpiIdle ==
    /\ lines = <<>>
    /\ layer_stack = <<>>
    /\ block = <<>>
    /\ iterations = 0
    /\ flat = <<>>

InitLay ==
    /\ pc = "lay"
    /\ error = ""
    /\ lay_lines = <<>>
    /\ layers = EmptyLayers
    /\ current_layer = None
    /\ lay_data = EmptyLayers
    /\ EpiIdle
    /\ conv = NoConv

\* the loop body applied to the next line of the file
LayRead(line) ==
    LET st == LayStep(LayState(layers, current_layer, ""), line)
    IN  /\ pc = "lay"
        /\ Len(lay_lines) < MaxLayLines
        /\ lay_lines' = Append(lay_lines, line)
        /\ layers' = st.layers
        /\ current_layer' = st.current_layer
        /\ error' = st.error
        /\ pc' = IF st.error = "" THEN "lay" ELSE "crashed"
        /\ UNCHANGED <<lay_data, lines, layer_stack, block, iterations, flat, conv>>

LayDefineLayer ==
    \E line \in LayAlphabet : line.kw = "definelayer" /\ LayRead(line)

LayRate ==
    \E line \in LayAlphabet : line.kw = "rate" /\ LayRead(line)

LayOpen ==
    \E line \in LayAlphabet : line.kw = "open" /\ LayRead(line)

LayEndDefine ==
    \E line \in LayAlphabet : line.kw = "enddefine" /\ LayRead(line)

LayOther ==
    \E line \in LayAlphabet : line.kw = "other" /\ LayRead(line)

\* end of file: return layers
LayReturn ==
    /\ pc = "lay"
    /\ pc' = "lay_done"
    /\ lay_data' = layers
    /\ UNCHANGED <<error, lay_lines, layers, current_layer, lines, layer_stack,
                   block, iterations, flat, conv>>

NextLay ==
    \/ LayDefineLayer
    \/ LayRate
    \/ LayOpen
    \/ LayEndDefine
    \/ LayOther
    \/ LayReturn

SpecLay == InitLay /\ [][NextLay]_vars

(***************************************************************************)
(* parse_layer_line                                                        *)
(***************************************************************************)
\* a line of the program file
EpiLine(kw, name, num, unit, step, comment) ==
    [kw |-> kw, name |-> name, num |-> num, unit |-> unit, step |-> step,
     comment |-> comment]

\* layer(<material>,<value><unit>) <comment words>
LayerLine(material, value, unit, comment) ==
    EpiLine("layer", material, value, unit, <<>>, comment)

\* for(<var>,<iterations>,<step>)
ForLine(var, count, step) == EpiLine("for", var, count, "", step, <<>>)

\* next(<var>)
NextLine(var) == EpiLine("next", var, <<>>, "", <<>>, <<>>)

\* a comment, a blank line or another directive
OtherLine == EpiLine("other", "", <<>>, "", <<>>, <<>>)

\* re.match(r'layer\((\w+),([\d.]+)([a-z]+)\)(.*)', line)
LayerMatch(line) ==
    /\ line.kw = "layer"
    /\ line.name # ""
    /\ IsNumChars(line.num)
    /\ line.unit # ""

\* re.match(r'for\((\w+),\s*(\d+),\s*([\d.]+)\)', line)
ForMatch(line) ==
    /\ line.kw = "for"
    /\ line.name # ""
    /\ IsDigitChars(line.num)
    /\ IsNumChars(line.step)

CompositionWords == {"Al30GaAs", "In20GaAs", "AlAs", "GaAs"}

\* re.search(r'(Al\d+GaAs|In\d+GaAs|AlAs|GaAs)', comment): leftmost match
CompositionTag(comment) ==
    LET hits == {i \in 1..Len(comment) : comment[i] \in CompositionWords}
    IN  IF hits = {} THEN "Unknown"
        ELSE comment[CHOOSE i \in hits : \A j \in hits : i <= j]

\* ", ".join(shutters)
RECURSIVE Join(_)
Join(sh) ==
    IF sh = <<>> THEN ""
    ELSE IF Len(sh) = 1 THEN sh[1]
    ELSE sh[1] \o ", " \o Join(Tail(sh))

Raise(exc) == [exc |-> exc, ret |-> None]
Return(value) == [exc |-> "", ret |-> value]

\* an idle line in nm taken as a thickness
IdleLayerThick(value, unit) ==
    [Material |-> "Idle",
     Thickness |-> IF unit = "nm" THEN value ELSE 0,
     Time |-> IF unit = "s" THEN value ELSE 0,
     Shutters |-> PyList(<<>>),
     Composition |-> "None",
     GrowthRate |-> 0]

\* the dictionary returned for the idle sentinel
IdleLayer(value, unit) ==
    [Material |-> "Idle",
     Thickness |-> 0,
     Time |-> IF unit = "s" THEN value ELSE 0,
     Shutters |-> PyList(<<>>),
     Composition |-> "None",
     GrowthRate |-> 0]

\* the conversion of lines 95-103 with the rounding of lines 107-108;
\* rate is None or a number of hundredths of nm/h
Resolve(value, unit, rate, up) ==
    IF unit = "nm"
    THEN IF rate = None THEN Raise("TypeError")
         ELSE IF rate[1] = 0 THEN Raise("ZeroDivisionError")
         ELSE Return(Some([Thickness |-> value,
                           Time |-> PyRound(value * 360000, rate[1], up)]))
    ELSE IF unit = "s"
    THEN IF rate = None THEN Raise("TypeError")
         ELSE Return(Some([Thickness |-> PyRound(rate[1] * value, 360000, up),
                           Time |-> value]))
    ELSE Return(None)

parse_layer_line(line, data, up) ==
    IF ~LayerMatch(line) THEN Return(None)
    ELSE IF ~FloatParses(line.num) THEN Raise("ValueError")
    ELSE IF line.name = "shutterzu"
    THEN Return(Some(IdleLayer(PyFloat(line.num), line.unit)))
    ELSE IF line.name \notin DOMAIN data THEN Raise("KeyError")
    ELSE LET r == Resolve(PyFloat(line.num), line.unit, data[line.name].rate, up)
         IN  IF r.exc # "" \/ r.ret = None THEN r
             ELSE Return(Some(
                    [Material |-> line.name,
                     Composition |-> CompositionTag(line.comment),
                     Thickness |-> r.ret[1].Thickness,
                     Time |-> r.ret[1].Time,
                     Shutters |-> PyStr(Join(data[line.name].shutters)),
                     Repeat |-> 1]))

(***************************************************************************)
(* parse_epi_file_with_loops                                               *)
(***************************************************************************)
\* lines 42-46: parse the captured body lines, keep those that return a layer
RECURSIVE ParseBlock(_, _, _)
ParseBlock(body, data, up) ==
    IF body = <<>> THEN Return(<<>>)
    ELSE LET p == parse_layer_line(Head(body), data, up)
         IN  IF p.exc # "" THEN Raise(p.exc)
             ELSE LET rest == ParseBlock(Tail(body), data, up)
                  IN  IF rest.exc # "" THEN rest
                      ELSE Return(p.ret \o rest.ret)

\* lines 47-51
GroupItem(count, block_layers) ==
    [Group |-> TRUE, Repeat |-> count, Layers |-> block_layers]

IsGroup(item) == "Group" \in DOMAIN item /\ item.Group

\* str.lower() on the material names of the model
Lower(s) ==
    CASE s = "SUBSTRATE" -> "substrate"
      [] s = "Substrate" -> "substrate"
      [] s = "GaAs" -> "gaas"
      [] s = "Idle" -> "idle"
      [] OTHER -> s

\* l.get("Material", "")
GetMaterial(item) == IF "Material" \in DOMAIN item THEN item.Material ELSE ""

SubstrateLayer ==
    [Material |-> "Substrate",
     Composition |-> "",
     Thickness |-> 50000,
     Time |-> 0,
     Shutters |-> PyStr(""),
     Repeat |-> 1]

\* line 58: any(l.get("Material", "").lower() == "substrate" for l in layer_stack)
HasSubstrate(stack) ==
    \E i \in 1..Len(stack) : Lower(GetMaterial(stack[i])) = "substrate"

\* lines 58-66
InsertSubstrate(stack) ==
    IF ~HasSubstrate(stack) THEN <<SubstrateLayer>> \o stack ELSE stack

(***************************************************************************)
(* flatten_layers                                                          *)
(***************************************************************************)
\* the copy with the time left unscaled
ScaleLayerNoTime(l, count) ==
    [k \in DOMAIN l \cup {"Repeat"} |->
        IF k = "Repeat" THEN count
        ELSE IF k = "Thickness" THEN l.Thickness * count
        ELSE l[k]]

\* lines 118-121: the copy of a body layer with the block's count applied
ScaleLayer(l, count) ==
    [k \in DOMAIN l \cup {"Repeat"} |->
        IF k = "Repeat" THEN count
        ELSE IF k = "Thickness" THEN l.Thickness * count
        ELSE IF k = "Time" THEN l.Time * count
        ELSE l[k]]

\* the copies collected in reverse body order
RECURSIVE ScaleAllReversed(_, _)
ScaleAllReversed(ls, count) ==
    IF ls = <<>> THEN <<>>
    ELSE ScaleAllReversed(Tail(ls), count) \o <<ScaleLayer(Head(ls), count)>>

RECURSIVE ScaleAll(_, _)
ScaleAll(ls, count) ==
    IF ls = <<>> THEN <<>>
    ELSE <<ScaleLayer(Head(ls), count)>> \o ScaleAll(Tail(ls), count)

RECURSIVE flatten_layers(_)
flatten_layers(stack) ==
    IF stack = <<>> THEN <<>>
    ELSE (IF IsGroup(Head(stack))
          THEN ScaleAll(Head(stack).Layers, Head(stack).Repeat)
          ELSE <<Head(stack)>>) \o flatten_layers(Tail(stack))

(***************************************************************************)
(* Program-file scan, line by line, then the report                        *)
(***************************************************************************)
GaAsDef(rateLines) ==
    <<LayLine("definelayer", <<"GaAs">>)>> \o rateLines
      \o <<LayLine("open", <<"As", "Ga">>), LayLine("enddefine", <<>>)>>

\* definitions files the program is interpreted against: GaAs with a rate,
\* with a zero rate, without a rate line, and not defined at all
LayFiles ==
    { GaAsDef(<<LayLine("rate", <<"6", "0", "0">>)>>)
        \o <<LayLine("definelayer", <<"SUBSTRATE">>),
             LayLine("rate", <<"3", "6", "0", "0">>),
             LayLine("enddefine", <<>>)>>,
      GaAsDef(<<LayLine("rate", <<"0">>)>>),
      GaAsDef(<<>>),
      <<>> }

ForLines ==
    {ForLine("i", <<DigitChar(n)>>, <<"0", ".", "0">>) : n \in 1..MaxRepeat}

EpiAlphabet ==
    { LayerLine("GaAs", <<"1", "2", "0">>, "s", <<"//", "GaAs", "buffer">>),
      LayerLine("GaAs", <<"1", "0">>, "nm", <<"Al30GaAs">>),
      LayerLine("shutterzu", <<"3", "0">>, "s", <<>>),
      LayerLine("shutterzu", <<"5">>, "nm", <<"Al30GaAs">>),
      LayerLine("SUBSTRATE", <<"1", "0">>, "nm", <<>>),
      LayerLine("GaAs", <<"7">>, "min", <<>>),
      NextLine("i"),
      OtherLine }
      \cup ForLines

LayIdle(file) ==
    LET st == parse_lay_file(file)
    IN  /\ st.error = ""
        /\ lay_lines = file
        /\ layers = st.layers
        /\ current_layer = st.current_layer
        /\ lay_data = st.layers

Init ==
    /\ pc = "epi"
    /\ error = ""
    /\ \E file \in LayFiles : LayIdle(file)
    /\ EpiIdle
    /\ conv = NoConv

EpiFrame == UNCHANGED <<lay_lines, layers, current_layer, lay_data, conv>>

\* lines 52-55: a layer( line outside a block
EpiLayer ==
    \E line \in EpiAlphabet, up \in BOOLEAN :
        LET p == parse_layer_line(line, lay_data, up)
        IN  /\ pc = "epi"
            /\ Len(lines) < MaxLines
            /\ line.kw = "layer"
            /\ lines' = Append(lines, line)
            /\ error' = p.exc
            /\ pc' = IF p.exc = "" THEN "epi" ELSE "crashed"
            /\ layer_stack' = IF p.exc = "" THEN layer_stack \o p.ret
                              ELSE layer_stack
            /\ UNCHANGED <<block, iterations, flat>>
            /\ EpiFrame

\* lines 32-38: a for( line outside a block opens the capture of its body
EpiFor ==
    \E line \in EpiAlphabet :
        /\ pc = "epi"
        /\ Len(lines) < MaxLines
        /\ line.kw = "for"
        /\ lines' = Append(lines, line)
        /\ IF ForMatch(line)
           THEN /\ iterations' = PyInt(line.num)
                /\ block' = <<>>
                /\ pc' = "block"
           ELSE UNCHANGED <<iterations, block, pc>>
        /\ UNCHANGED <<error, layer_stack, flat>>
        /\ EpiFrame

\* a line that starts with neither for( nor layer(
EpiOther ==
    \E line \in EpiAlphabet :
        /\ pc = "epi"
        /\ Len(lines) < MaxLines
        /\ line.kw \notin {"for", "layer"}
        /\ lines' = Append(lines, line)
        /\ UNCHANGED <<pc, error, layer_stack, block, iterations, flat>>
        /\ EpiFrame

\* lines 39-41: a body line, any line that does not start with next(
EpiBlockLine ==
    \E line \in EpiAlphabet :
        /\ pc = "block"
        /\ Len(lines) < MaxLines
        /\ line.kw # "next"
        /\ lines' = Append(lines, line)
        /\ block' = Append(block, line)
        /\ UNCHANGED <<pc, error, layer_stack, iterations, flat>>
        /\ EpiFrame

\* lines 42-51 and 56: the capture stopped at a next( line
EpiBlockNext ==
    \E line \in EpiAlphabet, up \in BOOLEAN :
        LET b == ParseBlock(block, lay_data, up)
        IN  /\ pc = "block"
            /\ Len(lines) < MaxLines
            /\ line.kw = "next"
            /\ lines' = Append(lines, line)
            /\ error' = b.exc
            /\ pc' = IF b.exc = "" THEN "epi" ELSE "crashed"
            /\ layer_stack' = IF b.exc = ""
                              THEN Append(layer_stack, GroupItem(iterations, b.ret))
                              ELSE layer_stack
            /\ UNCHANGED <<block, iterations, flat>>
            /\ EpiFrame

\* lines 30 and 58-68: end of input outside a block
EpiEnd ==
    /\ pc = "epi"
    /\ layer_stack' = InsertSubstrate(layer_stack)
    /\ pc' = "parsed"
    /\ UNCHANGED <<error, lines, block, iterations, flat>>
    /\ EpiFrame

\* lines 39, 42-51 and 58-68: the capture stopped at the end of input
EpiEndInBlock ==
    \E up \in BOOLEAN :
        LET b == ParseBlock(block, lay_data, up)
        IN  /\ pc = "block"
            /\ error' = b.exc
            /\ pc' = IF b.exc = "" THEN "parsed" ELSE "crashed"
            /\ layer_stack' = IF b.exc = ""
                              THEN InsertSubstrate(
                                     Append(layer_stack, GroupItem(iterations, b.ret)))
                              ELSE layer_stack
            /\ UNCHANGED <<lines, block, iterations, flat>>
            /\ EpiFrame

\* print_layer_table(layer_stack): flat_layers = flatten_layers(layers)
Flatten ==
    /\ pc = "parsed"
    /\ flat' = flatten_layers(layer_stack)
    /\ pc' = "done"
    /\ UNCHANGED <<error, lines, layer_stack, block, iterations>>
    /\ EpiFrame

Next ==
    \/ EpiLayer
    \/ EpiFor
    \/ EpiOther
    \/ EpiBlockLine
    \/ EpiBlockNext
    \/ EpiEnd
    \/ EpiEndInBlock
    \/ Flatten

Spec == Init /\ [][Next]_vars

(***************************************************************************)
(* Unit-conversion round trip: time -> thickness -> time                   *)
(***************************************************************************)
\* growth rates in hundredths of nm/h: 1, 600, 3600 and 7200 nm/h
ConvRates == {100, 60000, 360000, 720000}

\* times in hundredths of a second: 0.01 s steps and 0.5 s steps
ConvTimes == (1..MaxTime) \cup {50 * t : t \in 1..MaxTime}

InitConv ==
    /\ pc = "conv"
    /\ error = ""
    /\ LayIdle(<<>>)
    /\ EpiIdle
    /\ \E r \in ConvRates, t \in ConvTimes :
          conv = [rate |-> r, time |-> t, thickness |-> 0, back |-> 0]

ConvFrame ==
    UNCHANGED <<error, lay_lines, layers, current_layer, lay_data, lines,
                layer_stack, block, iterations, flat>>

\* unit s: the time is resolved to a thickness
ConvToThickness ==
    \E up \in BOOLEAN :
        /\ pc = "conv"
        /\ conv' = [conv EXCEPT !.thickness =
                        Resolve(conv.time, "s", Some(conv.rate), up).ret[1].Thickness]
        /\ pc' = "conv_thickness"
        /\ ConvFrame

\* unit nm: the returned thickness is resolved back to a time
ConvToTime ==
    \E up \in BOOLEAN :
        /\ pc = "conv_thickness"
        /\ conv' = [conv EXCEPT !.back =
                        Resolve(conv.thickness, "nm", Some(conv.rate), up).ret[1].Time]
        /\ pc' = "conv_done"
        /\ ConvFrame

NextConv ==
    \/ ConvToThickness
    \/ ConvToTime

SpecConv == InitConv /\ [][NextConv]_vars

(***************************************************************************)
(* Properties of the interpreted program                                   *)
(***************************************************************************)
Abs(x) == IF x < 0 THEN -x ELSE x

\* the layers of a stack, those inside groups included
RECURSIVE AllLayers(_)
AllLayers(stack) ==
    IF stack = <<>> THEN {}
    ELSE (IF IsGroup(Head(stack))
          THEN {Head(stack).Layers[i] : i \in 1..Len(Head(stack).Layers)}
          ELSE {Head(stack)}) \cup AllLayers(Tail(stack))

FlatLayers == {flat[i] : i \in 1..Len(flat)}

\* the program's own layers named substrate, in any case
OwnSubstrates ==
    {l \in FlatLayers : l # SubstrateLayer /\ Lower(l.Material) = "substrate"}

\* C1 (as claimed): after interpretation the synthetic substrate layer is at
\* index 0 if and only if no layer of the flattened stack, the layers of
\* repeated blocks included, is named substrate in any case.
C1_SubstrateIffAbsent ==
    pc = "done" =>
        ((flat # <<>> /\ flat[1] = SubstrateLayer) <=> OwnSubstrates = {})

\* what a line resolves to on its own; the rounding side changes neither
\* whether it raises nor whether it returns a layer
Result(line) == parse_layer_line(line, lay_data, TRUE)

\* a layer line naming a material, not the idle sentinel, that is not defined
UndefinedRef(line) ==
    /\ LayerMatch(line)
    /\ FloatParses(line.num)
    /\ line.name # "shutterzu"
    /\ line.name \notin DOMAIN lay_data

\* C2 (as claimed): a program whose only faults are references to undefined
\* materials is interpreted to the end, and no layer of an undefined material
\* is in the result.
C2_UndefinedMaterialDropped ==
    (\A p \in 1..Len(lines) : UndefinedRef(lines[p]) \/ Result(lines[p]).exc = "")
    => /\ pc # "crashed"
       /\ pc = "done" =>
            \A p \in 1..Len(lines), l \in FlatLayers :
                UndefinedRef(lines[p]) => l.Material # lines[p].name

\* a growth step in s or nm on a defined material whose rate is absent or zero
RateFault(line) ==
    /\ LayerMatch(line)
    /\ FloatParses(line.num)
    /\ line.name # "shutterzu"
    /\ line.name \in DOMAIN lay_data
    /\ line.unit \in {"s", "nm"}
    /\ lay_data[line.name].rate \in {None, Some(0)}

\* C3 (as claimed): a program whose only faults are growth steps on materials
\* without a usable rate is interpreted to the end, and no layer is emitted
\* for such a step.
C3_UndefinedRateDropped ==
    (\A p \in 1..Len(lines) : RateFault(lines[p]) \/ Result(lines[p]).exc = "")
    => /\ pc # "crashed"
       /\ pc = "done" =>
            \A p \in 1..Len(lines), l \in FlatLayers :
                RateFault(lines[p]) => l.Material # lines[p].name

\* a for( line is followed by no next( line
UnclosedFor(ls) ==
    \E i \in 1..Len(ls) :
        /\ ForMatch(ls[i])
        /\ \A j \in (i + 1)..Len(ls) : ls[j].kw # "next"

\* C4 (as claimed): no layer stack is returned for a program with an
\* unclosed for( line.
C4_UnclosedBlockFails ==
    pc \in {"parsed", "done"} => ~UnclosedFor(lines)

\* for each line, the index of the for( line whose body it belongs to, or 0:
\* a body is the lines between a for( line and the first following next( line
RECURSIVE OwnerScan(_, _, _)
OwnerScan(ls, p, open) ==
    IF p > Len(ls) THEN <<>>
    ELSE IF open = 0
    THEN <<0>> \o OwnerScan(ls, p + 1, IF ForMatch(ls[p]) THEN p ELSE 0)
    ELSE IF ls[p].kw = "next"
    THEN <<0>> \o OwnerScan(ls, p + 1, 0)
    ELSE <<open>> \o OwnerScan(ls, p + 1, open)

EnclosingFor == OwnerScan(lines, 1, 0)

\* the lines that resolve to a layer
Emitting == {p \in 1..Len(lines) : Result(lines[p]).ret # None}

Offset == IF flat # <<>> /\ flat[1] = SubstrateLayer THEN 1 ELSE 0

\* where the layer of line p stands in the flattened output
FlatIndex(p) == Offset + Cardinality({q \in Emitting : q <= p})

\* l.get("Repeat", 1), as the table and the plot read it
GetRepeat(l) == IF "Repeat" \in DOMAIN l THEN l.Repeat ELSE 1

IsIdleRecord(l) ==
    /\ l.Thickness = 0
    /\ l.GrowthRate = 0
    /\ l.Composition = "None"
    /\ l.Shutters = PyList(<<>>)

\* C6: every idle layer of the stack being built, of the returned stack and of
\* the flattened output has thickness 0, rate 0, composition "None" and no
\* shutters.
C6_IdleLayerShape ==
    \A l \in AllLayers(layer_stack) \cup FlatLayers :
        l.Material = "Idle" => IsIdleRecord(l)

\* an idle line in nm with a composition word in its comment went through a
\* block of two iterations or more
C6_Witness ==
    /\ pc = "done"
    /\ \E p \in Emitting :
          /\ lines[p].name = "shutterzu"
          /\ lines[p].unit = "nm"
          /\ CompositionTag(lines[p].comment) # "Unknown"
          /\ EnclosingFor[p] > 0
          /\ flat[FlatIndex(p)].Material = "Idle"
          /\ flat[FlatIndex(p)].Repeat >= 2

\* C7 (as claimed): the round trip returns the original time within 0.01 s.
C7_RoundTripTwoDecimals ==
    pc = "conv_done" => Abs(conv.back - conv.time) <= 1

\* C7 (amended): the round trip returns the original time within
\* 0.01 s + 18 / rate s, the rate in nm/h.
C7_RoundTripWithinRateBound ==
    pc = "conv_done" =>
        conv.rate * Abs(conv.back - conv.time) <= conv.rate + 180000

\* a round trip through a thickness above zero that changed the time
C7_Witness ==
    /\ pc = "conv_done"
    /\ conv.thickness > 0
    /\ conv.back # conv.time

(***************************************************************************)
(* Properties of the definitions-file scan                                 *)
(***************************************************************************)
\* state Outside by the lines read: no definelayer line yet, or an enddefine
\* line after the last definelayer line
Outside(ls) ==
    LET marks == {i \in 1..Len(ls) : ls[i].kw \in {"definelayer", "enddefine"}}
    IN  \/ marks = {}
        \/ ls[CHOOSE i \in marks : \A j \in marks : j <= i].kw = "enddefine"

\* C8: a rate or open line read in state Outside leaves the mapping unchanged
\* and the scan goes on, whatever the lines read before it.
C8_OutsideLinesIgnored ==
    [][(/\ pc = "lay"
        /\ Len(lay_lines') = Len(lay_lines) + 1
        /\ Last(lay_lines').kw \in {"rate", "open"}
        /\ Outside(lay_lines))
       => (layers' = layers /\ pc' = "lay")]_vars

\* a rate line with a number was read in state Outside after a closed block
C8_Witness ==
    /\ pc = "lay"
    /\ Len(lay_lines) >= 3
    /\ Last(lay_lines).kw = "rate"
    /\ FloatParses(Last(lay_lines).arg)
    /\ Outside(Front(lay_lines))
    /\ DOMAIN layers # {}

\* C9 (as claimed): a rate line whose value is not a number, read inside a
\* definition block, does not fail the parse and leaves the rate unset.
C9_BadRateSkipped ==
    (/\ lay_lines # <<>>
     /\ Last(lay_lines).kw = "rate"
     /\ ~FloatParses(Last(lay_lines).arg)
     /\ ~Outside(Front(lay_lines)))
    => pc # "crashed"

\* the block of id was opened and then closed by an enddefine line
Closed(id, ls) ==
    \E i, j \in 1..Len(ls) :
        /\ i < j
        /\ ls[i] = LayLine("definelayer", <<id>>)
        /\ ls[j].kw = "enddefine"
        /\ \A m \in (i + 1)..(j - 1) : ls[m].kw # "definelayer"

\* C10 (as claimed): once the block of an identifier is closed, no later line
\* changes its shutters or its rate.
C10_ClosedDefinitionFrozen ==
    [][\A id \in DOMAIN layers :
          Closed(id, lay_lines) => (id \in DOMAIN layers' /\ layers'[id] = layers[id])]_vars

(***************************************************************************)
(* Order of the flattened output                                           *)
(***************************************************************************)
\* the layer line p is expected to give: the layer it resolves to on its own,
\* with the count of its block applied when it stands in a body
ExpectedLayer(p, up) ==
    LET l == parse_layer_line(lines[p], lay_data, up).ret[1]
    IN  IF EnclosingFor[p] = 0 THEN l
        ELSE LET n == PyInt(lines[EnclosingFor[p]].num)
             IN  [k \in DOMAIN l \cup {"Repeat"} |->
                    IF k = "Repeat" THEN n
                    ELSE IF k = "Thickness" THEN n * l.Thickness
                    ELSE IF k = "Time" THEN n * l.Time
                    ELSE l[k]]

\* C11: the flattened output keeps program order: apart from the synthetic
\* substrate it has one layer per line that resolves to a layer and no other,
\* in the order of the lines; the layer of a line between a for( line and the
\* first following next( line carries that block's count, the layer of a line
\* outside every body is the layer the line resolves to.
C11_ProgramOrderKept ==
    pc = "done" =>
        /\ Len(flat) = Offset + Cardinality(Emitting)
        /\ \A p \in Emitting :
              \E up \in BOOLEAN : flat[FlatIndex(p)] = ExpectedLayer(p, up)

\* a layer line stands before a closed block that holds another layer line,
\* and the two give different layers
C11_Witness ==
    /\ pc = "done"
    /\ \E p, q \in Emitting :
          /\ p < q
          /\ EnclosingFor[p] = 0
          /\ EnclosingFor[q] > p
          /\ \E j \in (q + 1)..Len(lines) : lines[j].kw = "next"
          /\ flat[FlatIndex(p)].Material # flat[FlatIndex(q)].Material

\* a for( line that stands in the body of an open block
NestedFor(q) == ForMatch(lines[q]) /\ EnclosingFor[q] > 0

\* line p is in the body of the nested for( line q, which a next( line closes:
\* no next( line in between and one after p
InInnerBody(q, p) ==
    /\ q < p
    /\ \A j \in (q + 1)..(p - 1) : lines[j].kw # "next"
    /\ \E j \in (p + 1)..Len(lines) : lines[j].kw = "next"

\* C12 (as claimed): a program with a for( line inside an open block is either
\* not interpreted to a stack, or the layers of the inner body carry both
\* iteration counts; the inner for( line is never dropped in silence with its
\* body merged into the outer block.
C12_NestedForNotFlattened ==
    pc = "done" =>
        \A q \in 1..Len(lines), p \in Emitting :
            NestedFor(q) /\ InInnerBody(q, p) =>
                GetRepeat(flat[FlatIndex(p)]) =
                    PyInt(lines[EnclosingFor[q]].num) * PyInt(lines[q].num)

====
